---- MODULE Spec2Model ----
(***************************************************************************)
(* HealthMap backend: the single-entity pipeline (backend/main.py), the    *)
(* merge of entity records (backend/utils/json_utils.py) and the batch     *)
(* orchestrator (tools/batch_update.py).                                   *)
(*                                                                         *)
(* Conventions.  A Python str is a sequence of one-symbol strings.  A      *)
(* Python dict is a function from the keys it holds to JSON values; a key  *)
(* the dict lacks is outside DOMAIN.  A JSON value is a record [k, s,      *)
(* items]: k is its kind, s its text (kind "str"), items its elements      *)
(* (kind "list").  Python's None where a dict is expected is NoneRec.      *)
(***************************************************************************)
EXTENDS Naturals, Integers, Sequences, FiniteSets, TLC

VARIABLES
    store,           \* data/entities: storage key -> persisted record or NoneRec
    entities,        \* batch_process: the list of entity names of the batch
    update_existing, \* batch_process / process_entity: the update flag
    max_workers,     \* batch_process: the worker bound W
    submitted,       \* number of tasks handed to the executor so far
    running,         \* executor: worker thread -> index of the task it runs (0: idle)
    task,            \* per submitted name: the locals of its process_entity run
    success_count,   \* batch_process locals
    failure_count,
    failures,
    batch_pc,        \* position of the main thread in batch_process
    initial_store,   \* log: the store when the batch began
    m_existing,      \* merge_entity_data applied on its own: first argument
    m_new,           \*   second argument
    m_once,          \*   merge(existing, new)
    m_twice,         \*   merge(merge(existing, new), new)
    m_pc,
    p_name,          \* process_entity run on its own: entity_name
    p_update,        \*   update_existing
    p_store,         \*   data/entities: storage key -> persisted record or NoneRec
    p_run,           \*   the locals of the run and its position
    p_trace,         \*   log: the stages the run went through, in order
    v_data,          \* validate_entity_json applied on its own: the argument
    v_out,           \*   what the call did
    v_pc,
    x_text,          \* the extraction of lines 114-144 on its own: response_text
    x_kind,          \*   "enrich" (an object is expected) or "infer" (an array)
    x_src,           \*   log: the JSON text and the prose response_text was made of
    x_out,           \*   json_text and what json.loads made of it
    x_pc,
    s_store,         \* the tools called one beside the other: data/entities
    s_initial,       \*   log: data/entities before the first call
    s_calls          \*   caller -> the call it is in, its locals and position

vars == <<store, entities, update_existing, max_workers, submitted, running, task,
          success_count, failure_count, failures, batch_pc, initial_store,
          m_existing, m_new, m_once, m_twice, m_pc,
          p_name, p_update, p_store, p_run, p_trace,
          v_data, v_out, v_pc, x_text, x_kind, x_src, x_out, x_pc,
          s_store, s_initial, s_calls>>

batch_vars == <<store, entities, update_existing, max_workers, submitted, running,
                task, success_count, failure_count, failures, batch_pc, initial_store>>

merge_vars == <<m_existing, m_new, m_once, m_twice, m_pc>>

run_vars == <<p_name, p_update, p_store, p_run, p_trace>>

validate_vars == <<v_data, v_out, v_pc>>

extract_vars == <<x_text, x_kind, x_src, x_out, x_pc>>

store_vars == <<s_store, s_initial, s_calls>>

\* what a step of the batch, and a step of a merge on its own, leave alone
beside_batch ==
    <<merge_vars, run_vars, validate_vars, extract_vars, store_vars>>

beside_merge ==
    <<batch_vars, run_vars, validate_vars, extract_vars, store_vars>>

-----------------------------------------------------------------------------
(* Bounds *)

MaxBatch == 2
MaxWorkers == 2
MaxProseLen == 1
MaxCallers == 2

-----------------------------------------------------------------------------
(* JSON values and Python truthiness *)

Null == [k |-> "null", s |-> <<>>, items |-> <<>>]
Str(x) == [k |-> "str", s |-> x, items |-> <<>>]
Num == [k |-> "num", s |-> <<>>, items |-> <<>>]
List(xs) == [k |-> "list", s |-> <<>>, items |-> xs]

\* bool(v) for a JSON value: None, "" and [] are falsy; the number modelled is not 0
Truthy(v) ==
    CASE v.k = "null" -> FALSE
      [] v.k = "str" -> v.s # <<>>
      [] v.k = "num" -> TRUE
      [] OTHER -> v.items # <<>>

\* None where a dict is expected (load_entity_json of a missing file)
NoneRec == [f \in {"__None__"} |-> Null]

\* bool(d) for a dict or None
TruthyRec(d) == d # NoneRec /\ DOMAIN d # {}

Has(d, f) == f \in DOMAIN d

\* d[f] = v
Put(d, f, v) == [g \in DOMAIN d \cup {f} |-> IF g = f THEN v ELSE d[g]]

SeqToSet(xs) == {xs[i] : i \in 1..Len(xs)}

-----------------------------------------------------------------------------
(* Storage key derivation *)

Lower(c) ==
    CASE c = "A" -> "a"
      [] c = "B" -> "b"
      [] c = "C" -> "c"
      [] c = "D" -> "d"
      [] OTHER -> c

StrLower(x) == [i \in 1..Len(x) |-> Lower(x[i])]

StrReplace(x, old, new) == [i \in 1..Len(x) |-> IF x[i] = old THEN new ELSE x[i]]

\* a key derivation that leaves "/" in the file name
EntityFilenameKeepingSlash(entity_name) ==
    StrReplace(StrLower(entity_name), " ", "_")

\* entity_name.lower().replace(" ", "_").replace("/", "_")
EntityFilename(entity_name) ==
    StrReplace(StrReplace(StrLower(entity_name), " ", "_"), "/", "_")

-----------------------------------------------------------------------------
(* merge_entity_data *)

\* an element of a JSON array that is not an object (a number)
NotDict == [f \in {"__number__"} |-> Null]

IsDict(d) == d # NotDict /\ d # NoneRec

\* a in b for two Python strs: a is a substring of b
IsSubstring(a, b) ==
    \E i \in 0..(Len(b) - Len(a)) : \A j \in 1..Len(a) : b[i + j] = a[j]

\* the elements a for-loop over a JSON value visits (a str yields its characters)
IterItems(v) ==
    IF v.k = "str" THEN [i \in 1..Len(v.s) |-> Str(<<v.s[i]>>)] ELSE v.items

\* whether iterating over the value raises TypeError
NotIterable(v) == v.k \in {"null", "num"}

\* The loop of lines 178-180: acc is [raised, v] with v the value of
\* merged_data["subsidiaries"]; xs the elements still to visit.
RECURSIVE AddSubsidiaries(_, _)
AddSubsidiaries(acc, xs) ==
    IF acc.raised \/ xs = <<>> THEN acc
    ELSE LET x == Head(xs)
             cur == acc.v
         IN  CASE cur.k = "list" ->
                    AddSubsidiaries(
                        [raised |-> FALSE,
                         v |-> IF x \in SeqToSet(cur.items) THEN cur
                               ELSE List(Append(cur.items, x))],
                        Tail(xs))
               [] cur.k = "str" ->
                    \* "x in str": TypeError unless x is a str; str has no append
                    IF x.k = "str" /\ IsSubstring(x.s, cur.s)
                    THEN AddSubsidiaries(acc, Tail(xs))
                    ELSE [raised |-> TRUE, v |-> cur]
               [] OTHER -> [raised |-> TRUE, v |-> cur]

\* (rel["target"], rel["type"]) of a relationship that has both
RelKey(rel) == <<rel["target"], rel["type"]>>

\* Line 188 raises: an element that is no dict (TypeError), lacks target or
\* type (KeyError), or whose key is a list (unhashable).
KeySetRaises(rels) ==
    \/ NotIterable(rels)
    \/ rels.k = "str" /\ rels.s # <<>>
    \/ \E i \in 1..Len(rels.items) :
          LET rel == rels.items[i]
          IN  \/ ~IsDict(rel)
              \/ ~Has(rel, "target")
              \/ ~Has(rel, "type")
              \/ rel["target"].k = "list"
              \/ rel["type"].k = "list"

\* The loop of lines 191-195: acc is [raised, items, keys].
RECURSIVE AddRelationships(_, _)
AddRelationships(acc, xs) ==
    IF acc.raised \/ xs = <<>> THEN acc
    ELSE LET rel == Head(xs)
         IN  IF ~IsDict(rel)
             THEN [acc EXCEPT !.raised = TRUE]
             ELSE IF Has(rel, "target") /\ Has(rel, "type")
                  THEN IF rel["target"].k = "list" \/ rel["type"].k = "list"
                       THEN [acc EXCEPT !.raised = TRUE]
                       ELSE IF RelKey(rel) \notin acc.keys
                            THEN AddRelationships(
                                     [raised |-> FALSE,
                                      items |-> Append(acc.items, rel),
                                      keys |-> acc.keys \cup {RelKey(rel)}],
                                     Tail(xs))
                            ELSE AddRelationships(acc, Tail(xs))
                  ELSE AddRelationships(acc, Tail(xs))

ScalarFields == <<"name", "type", "parent", "revenue">>

\* lines 168-170
RECURSIVE MergeScalars(_, _, _)
MergeScalars(merged, new_data, fields) ==
    IF fields = <<>> THEN merged
    ELSE LET field == Head(fields)
         IN  MergeScalars(
                 IF Has(new_data, field) /\ Truthy(new_data[field])
                 THEN Put(merged, field, new_data[field])
                 ELSE merged,
                 new_data, Tail(fields))

\* a merge that replaces the subsidiaries by the incoming ones
MergeSubsidiariesReplacing(merged, new_data) ==
    IF Has(new_data, "subsidiaries") /\ Truthy(new_data["subsidiaries"])
    THEN [raised |-> FALSE,
          rec |-> Put(merged, "subsidiaries", new_data["subsidiaries"])]
    ELSE [raised |-> FALSE, rec |-> merged]

\* lines 173-180: [raised, rec]
MergeSubsidiaries(merged, new_data) ==
    IF Has(new_data, "subsidiaries") /\ Truthy(new_data["subsidiaries"])
    THEN LET m0 == IF Has(merged, "subsidiaries") THEN merged
                   ELSE Put(merged, "subsidiaries", List(<<>>))
             new_subs == new_data["subsidiaries"]
         IN  IF NotIterable(new_subs)
             THEN [raised |-> TRUE, rec |-> m0]
             ELSE LET r == AddSubsidiaries(
                               [raised |-> FALSE, v |-> m0["subsidiaries"]],
                               IterItems(new_subs))
                  IN  [raised |-> r.raised, rec |-> Put(m0, "subsidiaries", r.v)]
    ELSE [raised |-> FALSE, rec |-> merged]

\* lines 183-195: [raised, rec]
MergeRelationships(merged, new_data) ==
    IF Has(new_data, "relationships") /\ Truthy(new_data["relationships"])
    THEN LET m0 == IF Has(merged, "relationships") THEN merged
                   ELSE Put(merged, "relationships", List(<<>>))
             old == m0["relationships"]
             new_rels == new_data["relationships"]
         IN  IF KeySetRaises(old) \/ NotIterable(new_rels)
             THEN [raised |-> TRUE, rec |-> m0]
             ELSE IF new_rels.k = "str"
                  \* every element is one character: "target" is not in it
                  THEN [raised |-> FALSE, rec |-> m0]
                  ELSE IF old.k # "list"
                       \* an empty str: nothing to append to
                       THEN [raised |-> \E i \in 1..Len(new_rels.items) :
                                           LET rel == new_rels.items[i]
                                           IN  ~IsDict(rel)
                                               \/ (Has(rel, "target") /\ Has(rel, "type")),
                             rec |-> m0]
                       ELSE LET r == AddRelationships(
                                         [raised |-> FALSE,
                                          items |-> old.items,
                                          keys |-> {RelKey(old.items[i]) :
                                                       i \in 1..Len(old.items)}],
                                         new_rels.items)
                            IN  [raised |-> r.raised,
                                 rec |-> Put(m0, "relationships", List(r.items))]
    ELSE [raised |-> FALSE, rec |-> merged]

\* a merge that, with no existing record, merges the incoming record field
\* by field into an empty one
merge_entity_data_into_empty(existing_data, new_data) ==
    LET base == IF TruthyRec(existing_data) THEN existing_data
                ELSE [f \in {} |-> Null]
        m1 == MergeScalars(base, new_data, ScalarFields)
        m2 == MergeSubsidiaries(m1, new_data)
    IN  IF m2.raised THEN m2 ELSE MergeRelationships(m2.rec, new_data)

\* merge_entity_data(existing_data, new_data): [raised, rec]; raised means the
\* call ends in an exception (KeyError, TypeError or AttributeError)
merge_entity_data(existing_data, new_data) ==
    IF ~TruthyRec(existing_data)
    THEN [raised |-> FALSE, rec |-> new_data]
    ELSE LET m1 == MergeScalars(existing_data, new_data, ScalarFields)
             m2 == MergeSubsidiaries(m1, new_data)
         IN  IF m2.raised THEN m2 ELSE MergeRelationships(m2.rec, new_data)

-----------------------------------------------------------------------------
(* validate_entity_json *)

ValidTypes == {Str(<<"owned_by">>), Str(<<"owns">>), Str(<<"partner">>),
               Str(<<"competitor">>), Str(<<"customer">>), Str(<<"vendor">>)}

\* a check of a relationship that accepts any type
RelationshipErrorsAnyType(rel, i) ==
    IF ~IsDict(rel)
    THEN <<[msg |-> "must be an object", index |-> i]>>
    ELSE (IF ~Has(rel, "target")
          THEN <<[msg |-> "missing required field: target", index |-> i]>>
          ELSE <<>>)
         \o (IF ~Has(rel, "type")
             THEN <<[msg |-> "missing required field: type", index |-> i]>>
             ELSE <<>>)

\* lines 132-145 for the relationship at (0-based) index i
RelationshipErrors(rel, i) ==
    IF ~IsDict(rel)
    THEN <<[msg |-> "must be an object", index |-> i]>>
    ELSE (IF ~Has(rel, "target")
          THEN <<[msg |-> "missing required field: target", index |-> i]>>
          ELSE <<>>)
         \o (IF ~Has(rel, "type")
             THEN <<[msg |-> "missing required field: type", index |-> i]>>
             ELSE <<>>)
         \o (IF Has(rel, "type") /\ rel["type"] \notin ValidTypes
             THEN <<[msg |-> "has invalid type", index |-> i]>>
             ELSE <<>>)

RECURSIVE AllRelationshipErrors(_, _)
AllRelationshipErrors(rels, i) ==
    IF i >= Len(rels) THEN <<>>
    ELSE RelationshipErrors(rels[i + 1], i) \o AllRelationshipErrors(rels, i + 1)

\* the errors list of validate_entity_json(entity_data), entity_data a dict
ValidationErrors(entity_data) ==
    (IF ~Has(entity_data, "name")
     THEN <<[msg |-> "Missing required field: name", index |-> -1]>> ELSE <<>>)
    \o (IF ~Has(entity_data, "type")
        THEN <<[msg |-> "Missing required field: type", index |-> -1]>> ELSE <<>>)
    \o (IF Has(entity_data, "relationships") /\ entity_data["relationships"].k # "list"
        THEN <<[msg |-> "Field 'relationships' must be a list", index |-> -1]>>
        ELSE <<>>)
    \o (IF Has(entity_data, "subsidiaries") /\ entity_data["subsidiaries"].k # "list"
        THEN <<[msg |-> "Field 'subsidiaries' must be a list", index |-> -1]>>
        ELSE <<>>)
    \o (IF Has(entity_data, "relationships") /\ entity_data["relationships"].k = "list"
        THEN AllRelationshipErrors(entity_data["relationships"].items, 0)
        ELSE <<>>)

\* a JSON value that is no object (a str, a number, a list) where a dict is
\* expected
Value(v) == [f \in {"__value__"} |-> v]

IsValue(d) == DOMAIN d = {"__value__"}

\* field in entity_data, entity_data a str (substring) or a list (element)
ValueContains(v, field) ==
    CASE v.k = "str" -> IsSubstring(<<field>>, v.s)
      [] v.k = "list" -> Str(<<field>>) \in SeqToSet(v.items)
      [] OTHER -> FALSE

\* validate_entity_json: [raised, is_valid, errors].  None and a number have
\* no "in" (TypeError at line 119); a str or a list that contains
\* "relationships" or "subsidiaries" is indexed with a str (TypeError at line
\* 123 or 127)
validate_entity_json(entity_data) ==
    IF entity_data = NoneRec
    THEN [raised |-> TRUE, is_valid |-> FALSE, errors |-> <<>>]
    ELSE IF IsValue(entity_data)
    THEN LET v == entity_data["__value__"]
             errors ==
                 (IF ~ValueContains(v, "name")
                  THEN <<[msg |-> "Missing required field: name", index |-> -1]>>
                  ELSE <<>>)
                 \o (IF ~ValueContains(v, "type")
                     THEN <<[msg |-> "Missing required field: type", index |-> -1]>>
                     ELSE <<>>)
         IN  IF \/ v.k \in {"num", "null"}
                \/ ValueContains(v, "relationships")
                \/ ValueContains(v, "subsidiaries")
             THEN [raised |-> TRUE, is_valid |-> FALSE, errors |-> <<>>]
             ELSE [raised |-> FALSE, is_valid |-> Len(errors) = 0, errors |-> errors]
    ELSE LET errors == ValidationErrors(entity_data)
         IN  [raised |-> FALSE, is_valid |-> Len(errors) = 0, errors |-> errors]

-----------------------------------------------------------------------------
(* Inputs: entity names, collaborator answers *)

EntityNames == {<<"A", " ", "b">>, <<"a", "/", "b">>, <<"C">>}

StorageKeys == {EntityFilename(n) : n \in EntityNames}

\* a result dict carrying an error field
ErrorResult(msg, entity_name) ==
    [f \in {"error", "entity_name"} |->
        IF f = "error" THEN Str(msg) ELSE Str(entity_name)]

OwnedByP == [f \in {"target", "type"} |->
                IF f = "target" THEN Str(<<"P">>) ELSE Str(<<"owned_by">>)]
OwnedByPNote == Put(OwnedByP, "note", Str(<<"since 2020">>))
NoTypeRel == [f \in {"target"} |-> Str(<<"P">>)]

\* JSON objects the model text of an enrichment call about entity_name may
\* parse to (json.loads of line 144)
PayloadFull(entity_name) ==
    [f \in {"name", "type", "subsidiaries", "relationships"} |->
        CASE f = "name" -> Str(entity_name)
          [] f = "type" -> Str(<<"Payer">>)
          [] f = "subsidiaries" -> List(<<Str(<<"X">>), Str(<<"Y">>)>>)
          [] OTHER -> List(<<OwnedByP>>)]

PayloadFewer(entity_name) ==
    [f \in {"name", "type", "subsidiaries", "relationships"} |->
        CASE f = "name" -> Str(entity_name)
          [] f = "type" -> Str(<<"Payer">>)
          [] f = "subsidiaries" -> List(<<Str(<<"Z">>)>>)
          [] OTHER -> List(<<OwnedByPNote>>)]

PayloadNonList == [f \in {"type", "subsidiaries"} |->
                      IF f = "type" THEN Str(<<"Payer">>) ELSE Num]

PayloadNoType(entity_name) ==
    [f \in {"name", "type", "relationships"} |->
        CASE f = "name" -> Str(entity_name)
          [] f = "type" -> Str(<<"Payer">>)
          [] OTHER -> List(<<NoTypeRel>>)]

PayloadError == [f \in {"error"} |-> Str(<<"unknown entity">>)]

\* an object that names the entity by another name than the one asked for
\* and gives no type
PayloadOtherName == [f \in {"name"} |-> Str(<<"D">>)]

\* (the runs of a batch are taken over the first five)
Payloads(entity_name) ==
    {PayloadFull(entity_name), PayloadFewer(entity_name), PayloadNonList,
     PayloadNoType(entity_name), PayloadError}
    \cup (IF batch_pc = "idle" THEN {PayloadOtherName} ELSE {})

\* lines 146-150: fill the required fields the parsed object lacks
RequiredFields == <<"name", "type", "subsidiaries", "relationships">>

RECURSIVE FillRequired(_, _)
FillRequired(d, fields) ==
    IF fields = <<>> THEN d
    ELSE LET field == Head(fields)
         IN  FillRequired(
                 IF Has(d, field) THEN d
                 ELSE Put(d, field,
                          IF field \in {"subsidiaries", "relationships"}
                          THEN List(<<>>) ELSE Null),
                 Tail(fields))

\* every value enrich_entity_data(entity_name, scraped_data) may return
EnrichResults(entity_name) ==
    { ErrorResult(<<"API key not configured">>, entity_name),
      ErrorResult(<<"JSON parsing error">>, entity_name) }
    \cup {FillRequired(p, RequiredFields) : p \in Payloads(entity_name)}

\* scrape_wikipedia(title): a page, or a result carrying an error field
ScrapeResults(title) ==
    { [f \in {"entity_name", "summary"} |->
          IF f = "entity_name" THEN Str(title) ELSE Str(<<"page">>)],
      ErrorResult(<<"No content found">>, title) }

\* search_wikipedia(query): the titles of the ranked candidates, possibly none
SearchResults(query) == { <<>>, <<<<"B">>, <<"D">>>> }

NewsItem == [f \in {"title"} |-> Str(<<"headline">>)]

\* scrape_recent_news(entity_name): possibly empty
NewsResults == { <<>>, <<NewsItem>> }

-----------------------------------------------------------------------------
(* process_entity: the stages of one run, as steps on its locals *)

\* the locals of one process_entity run, before it starts
NewTask ==
    [pc |-> "queued",
     existing_data |-> NoneRec,
     scraped_data |-> NoneRec,
     search_results |-> <<>>,
     news_data |-> <<>>,
     enriched_data |-> NoneRec,
     merged_data |-> NoneRec,
     is_valid |-> TRUE,
     result |-> NoneRec,
     raised |-> FALSE,
     writes |-> 0,
     outcome |-> <<>>]

NotFound(entity_name) ==
    ErrorResult(<<"Could not find Wikipedia data">>, entity_name)

\* return res
Returns(r, res) == [r EXCEPT !.pc = "returned", !.result = res]

\* lines 54-56: the first scrape
ScrapeStage(r, entity_name) ==
    { [r EXCEPT !.scraped_data = res,
                !.pc = IF Has(res, "error") THEN "search" ELSE "news"] :
        res \in ScrapeResults(entity_name) }

\* lines 61-63, 76-78: the search fallback
SearchStage(r, entity_name) ==
    { IF sr # <<>>
      THEN [r EXCEPT !.search_results = sr, !.pc = "rescrape"]
      ELSE Returns(r, NotFound(entity_name)) :
        sr \in SearchResults(entity_name) }

\* a rescrape that takes the last candidate of the search
RescrapeStageLastCandidate(r, entity_name) ==
    { IF Has(res, "error")
      THEN [Returns(r, NotFound(entity_name)) EXCEPT !.scraped_data = res]
      ELSE [r EXCEPT !.scraped_data = res, !.pc = "news"] :
        res \in ScrapeResults(r.search_results[Len(r.search_results)]) }

\* lines 67-75: scrape the first search result
RescrapeStage(r, entity_name) ==
    { IF Has(res, "error")
      THEN [Returns(r, NotFound(entity_name)) EXCEPT !.scraped_data = res]
      ELSE [r EXCEPT !.scraped_data = res, !.pc = "news"] :
        res \in ScrapeResults(r.search_results[1]) }

\* a news stage that attaches whatever the news collaborator returned
NewsStageAlways(r, entity_name) ==
    { [r EXCEPT !.pc = "enrich",
                !.news_data = news_data,
                !.scraped_data = Put(r.scraped_data, "news", List(news_data))] :
        news_data \in NewsResults }

\* lines 82-86: news is attached when there is some
NewsStage(r, entity_name) ==
    { [r EXCEPT !.pc = "enrich",
                !.news_data = news_data,
                !.scraped_data = IF news_data # <<>>
                                 THEN Put(r.scraped_data, "news", List(news_data))
                                 ELSE r.scraped_data] :
        news_data \in NewsResults }

\* an enrichment stage that goes on to merge and save whatever came back
EnrichStageNoCheck(r, entity_name) ==
    { [r EXCEPT !.enriched_data = e, !.pc = "merge"] :
        e \in EnrichResults(entity_name) }

\* lines 90-94: enrichment; a result carrying an error field is returned as is
EnrichStage(r, entity_name) ==
    { IF Has(e, "error")
      THEN [Returns(r, e) EXCEPT !.enriched_data = e]
      ELSE [r EXCEPT !.enriched_data = e, !.pc = "merge"] :
        e \in EnrichResults(entity_name) }

\* a merge stage that replaces the persisted record by the enriched one
MergeStageReplacing(r) ==
    [r EXCEPT !.pc = "validate", !.merged_data = r.enriched_data]

\* lines 97-101: an exception of merge_entity_data leaves process_entity
MergeStage(r) ==
    IF TruthyRec(r.existing_data)
    THEN LET m == merge_entity_data(r.existing_data, r.enriched_data)
         IN  IF m.raised
             THEN [r EXCEPT !.pc = "returned", !.raised = TRUE]
             ELSE [r EXCEPT !.pc = "validate", !.merged_data = m.rec]
    ELSE [r EXCEPT !.pc = "validate", !.merged_data = r.enriched_data]

\* a validation that ends the run when the record is not valid
ValidateStageBlocking(r) ==
    IF validate_entity_json(r.merged_data).is_valid
    THEN [r EXCEPT !.pc = "save", !.is_valid = TRUE]
    ELSE [Returns(r, ErrorResult(<<"Validation failed">>, <<>>)) EXCEPT
             !.is_valid = FALSE]

\* lines 104-108: validation only logs
ValidateStage(r) ==
    [r EXCEPT !.pc = "save",
              !.is_valid = validate_entity_json(r.merged_data).is_valid]

\* the next stage of a run that is between loading and saving
Stage(r, entity_name) ==
    CASE r.pc = "scrape" -> ScrapeStage(r, entity_name)
      [] r.pc = "search" -> SearchStage(r, entity_name)
      [] r.pc = "rescrape" -> RescrapeStage(r, entity_name)
      [] r.pc = "news" -> NewsStage(r, entity_name)
      [] r.pc = "enrich" -> EnrichStage(r, entity_name)
      [] r.pc = "merge" -> {MergeStage(r)}
      [] r.pc = "validate" -> {ValidateStage(r)}
      [] OTHER -> {r}

\* lines 52-108: every way the run can get from r to the save or to a return
RECURSIVE RunStages(_, _)
RunStages(r, entity_name) ==
    IF r.pc \in {"save", "returned"} THEN {r}
    ELSE UNION {RunStages(r2, entity_name) : r2 \in Stage(r, entity_name)}

\* a save that leaves the file empty when it fails
save_entity_json_truncating(files, entity_data, k, ok) ==
    IF ok THEN [files EXCEPT ![k] = entity_data]
    ELSE [files EXCEPT ![k] = NoneRec]

\* save_entity_json(entity_data, filepath): with ok the file holds entity_data
\* and True is returned; otherwise the exception is logged and False is returned
save_entity_json(files, entity_data, k, ok) ==
    IF ok THEN [files EXCEPT ![k] = entity_data] ELSE files

-----------------------------------------------------------------------------
(* State of a batch run *)

Threads == 1..max_workers

Tasks == 1..Len(entities)

Key(i) == EntityFilename(entities[i])

\* records an earlier run may have persisted under the key: the key is itself
\* an entity name that is stored under this key
InitialRecords(k) ==
    {NoneRec, FillRequired(PayloadFull(k), RequiredFields),
     FillRequired(PayloadNoType(k), RequiredFields)}

Batches == UNION {[1..n -> EntityNames] : n \in 1..MaxBatch}

BatchInit ==
    /\ store \in [StorageKeys -> UNION {InitialRecords(k) : k \in StorageKeys}]
    /\ \A k \in StorageKeys : store[k] \in InitialRecords(k)
    /\ entities \in Batches
    /\ update_existing \in BOOLEAN
    /\ max_workers \in 1..MaxWorkers
    /\ submitted = 0
    /\ running = [t \in 1..max_workers |-> 0]
    /\ task = [i \in 1..Len(entities) |-> NewTask]
    /\ success_count = 0
    /\ failure_count = 0
    /\ failures = <<>>
    /\ batch_pc = "submit"
    /\ initial_store = store

MergeIdle ==
    /\ m_existing = NoneRec
    /\ m_new = NoneRec
    /\ m_once = [raised |-> FALSE, rec |-> NoneRec]
    /\ m_twice = [raised |-> FALSE, rec |-> NoneRec]
    /\ m_pc = "idle"

\* no run of process_entity on its own
RunIdle ==
    /\ p_name = <<>>
    /\ p_update = TRUE
    /\ p_store = [k \in StorageKeys |-> NoneRec]
    /\ p_run = NewTask
    /\ p_trace = <<>>

ValidateIdle ==
    /\ v_data = NoneRec
    /\ v_out = [raised |-> FALSE, is_valid |-> FALSE, errors |-> <<>>]
    /\ v_pc = "idle"

ExtractIdle ==
    /\ x_text = <<>>
    /\ x_kind = "enrich"
    /\ x_src = <<>>
    /\ x_out = <<>>
    /\ x_pc = "idle"

\* the locals of a caller that is in no call
NoCall ==
    [op |-> "none", pc |-> "idle", name |-> <<>>, update |-> TRUE,
     force |-> FALSE, existed |-> FALSE, run |-> NewTask,
     entities |-> <<>>, updated |-> <<>>, i |-> 0, result |-> "none",
     before |-> <<>>, disturbed |-> FALSE]

\* no tool is called
StoreIdle ==
    /\ s_store = <<>>
    /\ s_initial = <<>>
    /\ s_calls = <<>>

Init ==
    BatchInit /\ MergeIdle /\ RunIdle /\ ValidateIdle /\ ExtractIdle /\ StoreIdle

-----------------------------------------------------------------------------
(* batch_process: the executor and the worker threads *)

\* executor.submit(process_entity_wrapper, entity, update_existing), one per name
Submit ==
    /\ batch_pc = "submit"
    /\ submitted' = submitted + 1
    /\ batch_pc' = IF submitted + 1 = Len(entities) THEN "collect" ELSE "submit"
    /\ UNCHANGED <<store, entities, update_existing, max_workers, running, task,
                   success_count, failure_count, failures, initial_store>>
    /\ UNCHANGED beside_batch

\* the work queue is first in, first out
NextQueued ==
    IF \E i \in 1..submitted : task[i].pc = "queued"
    THEN CHOOSE i \in 1..submitted :
            /\ task[i].pc = "queued"
            /\ \A j \in 1..submitted : task[j].pc = "queued" => i <= j
    ELSE 0

\* a worker thread that takes the next work item while it still runs one
StartWhileBusy(t) ==
    /\ NextQueued # 0
    /\ running' = [running EXCEPT ![t] = NextQueued]
    /\ task' = [task EXCEPT ![NextQueued].pc = "load"]
    /\ UNCHANGED <<store, entities, update_existing, max_workers, submitted,
                   success_count, failure_count, failures, batch_pc, initial_store>>
    /\ UNCHANGED beside_batch

\* an idle worker thread takes the next work item and enters process_entity
Start(t) ==
    /\ running[t] = 0
    /\ NextQueued # 0
    /\ running' = [running EXCEPT ![t] = NextQueued]
    /\ task' = [task EXCEPT ![NextQueued].pc = "load"]
    /\ UNCHANGED <<store, entities, update_existing, max_workers, submitted,
                   success_count, failure_count, failures, batch_pc, initial_store>>
    /\ UNCHANGED beside_batch

\* a load that waits while another run works on the record of the same key
LoadExistingLocked(t) ==
    LET i == running[t] IN
    /\ i # 0
    /\ task[i].pc = "load"
    /\ \A u \in Threads :
          (u # t /\ running[u] # 0 /\ Key(running[u]) = Key(i))
              => task[running[u]].pc = "load"
    /\ task' = [task EXCEPT ![i].pc = "scrape",
                            ![i].existing_data =
                                IF update_existing THEN store[Key(i)] ELSE NoneRec]
    /\ UNCHANGED <<store, entities, update_existing, max_workers, submitted, running,
                   success_count, failure_count, failures, batch_pc, initial_store>>
    /\ UNCHANGED beside_batch

\* process_entity lines 46-50: load the persisted record when update_existing
LoadExisting(t) ==
    LET i == running[t] IN
    /\ i # 0
    /\ task[i].pc = "load"
    /\ task' = [task EXCEPT ![i].pc = "scrape",
                            ![i].existing_data =
                                IF update_existing THEN store[Key(i)] ELSE NoneRec]
    /\ UNCHANGED <<store, entities, update_existing, max_workers, submitted, running,
                   success_count, failure_count, failures, batch_pc, initial_store>>
    /\ UNCHANGED beside_batch

\* process_entity lines 52-108: scrape, search fallback, news, enrichment, merge
\* and validation touch nothing but the run's locals and the collaborators
RunPipeline(t) ==
    LET i == running[t] IN
    /\ i # 0
    /\ task[i].pc = "scrape"
    /\ \E r \in RunStages(task[i], entities[i]) :
          \* scraped_data, search_results and news_data are not read after line 90
          task' = [task EXCEPT ![i] = [r EXCEPT !.scraped_data = NoneRec,
                                                !.search_results = <<>>,
                                                !.news_data = <<>>]]
    /\ UNCHANGED <<store, entities, update_existing, max_workers, submitted, running,
                   success_count, failure_count, failures, batch_pc, initial_store>>
    /\ UNCHANGED beside_batch

\* process_entity lines 112-115: the return value of save_entity_json is not
\* looked at
Save(t) ==
    LET i == running[t] IN
    /\ i # 0
    /\ task[i].pc = "save"
    /\ \E ok \in BOOLEAN :
          /\ store' = save_entity_json(store, task[i].merged_data, Key(i), ok)
          /\ task' = [task EXCEPT ![i] =
                         [Returns(task[i], task[i].merged_data) EXCEPT
                             !.writes = IF ok THEN @ + 1 ELSE @]]
    /\ UNCHANGED <<entities, update_existing, max_workers, submitted, running,
                   success_count, failure_count, failures, batch_pc, initial_store>>
    /\ UNCHANGED beside_batch

\* a wrapper that reports success whenever no exception was raised
WrapperResultIgnoringError(r, entity_name) ==
    IF r.raised
    THEN [entity_name |-> entity_name, success |-> FALSE,
          error |-> Str(<<"exception">>)]
    ELSE [entity_name |-> entity_name, success |-> TRUE, error |-> Null]

\* process_entity_wrapper lines 36-42: (entity_name, success, error_message)
WrapperResult(r, entity_name) ==
    IF r.raised
    THEN [entity_name |-> entity_name, success |-> FALSE,
          error |-> Str(<<"exception">>)]
    ELSE IF Has(r.result, "error")
         THEN [entity_name |-> entity_name, success |-> FALSE,
               error |-> r.result["error"]]
         ELSE [entity_name |-> entity_name, success |-> TRUE, error |-> Null]

\* the wrapper returns, the future completes and the worker thread is free again
Complete(t) ==
    LET i == running[t] IN
    /\ i # 0
    /\ task[i].pc = "returned"
    /\ task' = [task EXCEPT ![i] =
                   [NewTask EXCEPT !.pc = "done",
                                   !.outcome = <<WrapperResult(task[i], entities[i])>>]]
    /\ running' = [running EXCEPT ![t] = 0]
    /\ UNCHANGED <<store, entities, update_existing, max_workers, submitted,
                   success_count, failure_count, failures, batch_pc, initial_store>>
    /\ UNCHANGED beside_batch

\* batch_process lines 104-113: as_completed hands over a finished future, in
\* any order
Tally(i) ==
    /\ batch_pc = "collect"
    /\ task[i].pc = "done"
    /\ LET r == task[i].outcome[1] IN
       IF r.success
       THEN /\ success_count' = success_count + 1
            /\ UNCHANGED <<failure_count, failures>>
       ELSE /\ failures' = Append(failures, <<r.entity_name, r.error>>)
            /\ failure_count' = failure_count + 1
            /\ UNCHANGED success_count
    /\ task' = [task EXCEPT ![i].pc = "tallied"]
    /\ UNCHANGED <<store, entities, update_existing, max_workers, submitted, running,
                   batch_pc, initial_store>>
    /\ UNCHANGED beside_batch

\* batch_process line 117: return (success_count, failure_count, failures)
Return ==
    /\ batch_pc = "collect"
    /\ \A i \in Tasks : task[i].pc = "tallied"
    /\ batch_pc' = "done"
    /\ UNCHANGED <<store, entities, update_existing, max_workers, submitted, running,
                   task, success_count, failure_count, failures, initial_store>>
    /\ UNCHANGED beside_batch

Next ==
    \/ Submit
    \/ \E t \in Threads : Start(t)
    \/ \E t \in Threads : LoadExisting(t)
    \/ \E t \in Threads : RunPipeline(t)
    \/ \E t \in Threads : Save(t)
    \/ \E t \in Threads : Complete(t)
    \/ \E i \in Tasks : Tally(i)
    \/ Return

Spec == Init /\ [][Next]_vars

\* process_entity called one run after the other: a pool of one worker
SeqInit == Init /\ max_workers = 1

SeqSpec == SeqInit /\ [][Next]_vars

\* the steps that wait for nothing but the scheduler
Scheduled ==
    \/ Submit
    \/ \E t \in Threads : Start(t)
    \/ \E t \in Threads : LoadExisting(t)
    \/ \E t \in Threads : Save(t)
    \/ \E t \in Threads : Complete(t)
    \/ \E i \in Tasks : Tally(i)
    \/ Return

\* every collaborator call returns: no run stays between its load and its
\* save for ever
CollaboratorsReturn ==
    \A t \in 1..MaxWorkers :
        []<>(t \in Threads => (running[t] = 0 \/ task[running[t]].pc # "scrape"))

\* the scheduler lets every thread run and every collaborator call returns
FairSpec == Spec /\ WF_vars(Scheduled) /\ CollaboratorsReturn

-----------------------------------------------------------------------------
(* merge_entity_data on its own *)

Absent == [k |-> "absent", s |-> <<>>, items |-> <<>>]

\* the dict that holds the fields of o whose value is not Absent
Dict(o) == [f \in {g \in DOMAIN o : o[g] # Absent} |-> o[f]]

MergeRecords ==
    { Dict([name |-> nm, type |-> Str(<<"Payer">>), parent |-> pa,
            subsidiaries |-> su, relationships |-> re]) :
        nm \in {Null, Str(<<"C">>)},
        pa \in {Absent, Str(<<>>), Str(<<"G">>), Str(<<"H">>)},
        su \in {Absent, List(<<>>), List(<<Str(<<"X">>), Str(<<"Y">>)>>),
                List(<<Str(<<"Y">>), Str(<<"Z">>)>>),
                List(<<Str(<<"X">>), Str(<<"X">>)>>), Num},
        re \in {Absent, List(<<>>), List(<<OwnedByP>>), List(<<OwnedByPNote>>),
                List(<<OwnedByP, OwnedByPNote>>), List(<<NoTypeRel>>)} }

BatchIdle ==
    /\ store = [k \in StorageKeys |-> NoneRec]
    /\ entities = <<>>
    /\ update_existing = TRUE
    /\ max_workers = 1
    /\ submitted = 0
    /\ running = [t \in 1..1 |-> 0]
    /\ task = <<>>
    /\ success_count = 0
    /\ failure_count = 0
    /\ failures = <<>>
    /\ batch_pc = "idle"
    /\ initial_store = store

MergeInit ==
    /\ BatchIdle
    /\ RunIdle
    /\ ValidateIdle
    /\ ExtractIdle
    /\ StoreIdle
    /\ m_existing \in MergeRecords \cup {NoneRec}
    /\ m_new \in MergeRecords
    /\ m_once = [raised |-> FALSE, rec |-> NoneRec]
    /\ m_twice = [raised |-> FALSE, rec |-> NoneRec]
    /\ m_pc = "start"

\* merge_entity_data(existing, new)
MergeOnce ==
    /\ m_pc = "start"
    /\ m_once' = merge_entity_data(m_existing, m_new)
    /\ m_pc' = "once"
    /\ UNCHANGED <<m_existing, m_new, m_twice>>
    /\ UNCHANGED beside_merge

\* merge_entity_data(merge_entity_data(existing, new), new)
MergeTwice ==
    /\ m_pc = "once"
    /\ ~m_once.raised
    /\ m_twice' = merge_entity_data(m_once.rec, m_new)
    /\ m_pc' = "twice"
    /\ UNCHANGED <<m_existing, m_new, m_once>>
    /\ UNCHANGED beside_merge

MergeNext == MergeOnce \/ MergeTwice

MergeSpec == MergeInit /\ [][MergeNext]_vars

\* C10: merge(merge(A, B), B) equals merge(A, B) for all records A (possibly
\* absent) and B: the second application returns, and returns the same record.
C10_MergeIdempotent ==
    m_pc = "twice" => (~m_twice.raised /\ m_twice.rec = m_once.rec)


-----------------------------------------------------------------------------
(* process_entity on its own, one stage per step *)

beside_run ==
    <<batch_vars, merge_vars, validate_vars, extract_vars, store_vars>>

RunKey == EntityFilename(p_name)

RunInit ==
    /\ BatchIdle
    /\ MergeIdle
    /\ ValidateIdle
    /\ ExtractIdle
    /\ StoreIdle
    /\ p_name \in EntityNames
    /\ p_update \in BOOLEAN
    /\ \E rec \in InitialRecords(EntityFilename(p_name)) :
          p_store = [k \in StorageKeys |->
                        IF k = EntityFilename(p_name) THEN rec ELSE NoneRec]
    /\ p_run = [NewTask EXCEPT !.pc = "load"]
    /\ p_trace = <<>>

\* lines 45-50
RunLoad ==
    /\ p_run.pc = "load"
    /\ p_run' = [p_run EXCEPT !.pc = "scrape",
                              !.existing_data =
                                  IF p_update THEN p_store[RunKey] ELSE NoneRec]
    /\ p_trace' = Append(p_trace, "load")
    /\ UNCHANGED <<p_name, p_update, p_store>>
    /\ UNCHANGED beside_run

\* the stage the run is at, from its call to the branch taken on the answer
StageStep(pc) ==
    /\ p_run.pc = pc
    /\ p_run' \in Stage(p_run, p_name)
    /\ p_trace' = Append(p_trace, pc)
    /\ UNCHANGED <<p_name, p_update, p_store>>
    /\ UNCHANGED beside_run

RunScrape == StageStep("scrape")

RunSearch == StageStep("search")

RunRescrape == StageStep("rescrape")

RunNews == StageStep("news")

RunEnrich == StageStep("enrich")

RunMerge == StageStep("merge")

RunValidate == StageStep("validate")

\* lines 110-115
RunSave ==
    /\ p_run.pc = "save"
    /\ \E ok \in BOOLEAN :
          /\ p_store' = save_entity_json(p_store, p_run.merged_data, RunKey, ok)
          /\ p_run' = [Returns(p_run, p_run.merged_data) EXCEPT
                          !.writes = IF ok THEN @ + 1 ELSE @]
    /\ p_trace' = Append(p_trace, "save")
    /\ UNCHANGED <<p_name, p_update>>
    /\ UNCHANGED beside_run

RunNext ==
    \/ RunLoad
    \/ RunScrape
    \/ RunSearch
    \/ RunRescrape
    \/ RunNews
    \/ RunEnrich
    \/ RunMerge
    \/ RunValidate
    \/ RunSave

RunSpec == RunInit /\ [][RunNext]_vars

-----------------------------------------------------------------------------
(* a call of merge_entity_data, or a run of process_entity *)

MergeOrRunInit == MergeInit \/ RunInit

MergeOrRunNext == MergeNext \/ RunNext

MergeOrRunSpec == MergeOrRunInit /\ [][MergeOrRunNext]_vars

-----------------------------------------------------------------------------
(* validate_entity_json on its own *)

beside_validate ==
    <<batch_vars, merge_vars, run_vars, extract_vars, store_vars>>

AllyRel == [f \in {"target", "type"} |->
               IF f = "target" THEN Str(<<"X">>) ELSE Str(<<"ally">>)]

NoTargetRel == [f \in {"type"} |-> Str(<<"owns">>)]

\* the dicts handed to the validator
ValidateRecords ==
    { Dict([name |-> nm, type |-> ty, subsidiaries |-> su, relationships |-> re]) :
        nm \in {Absent, Null, Str(<<"Acme">>)},
        ty \in {Absent, Str(<<"Vendor">>)},
        su \in {Absent, List(<<Str(<<"X">>)>>), Num, Str(<<"X">>)},
        re \in {Absent, List(<<>>), List(<<OwnedByP>>), List(<<AllyRel>>),
                List(<<NoTypeRel>>), List(<<NoTargetRel>>), List(<<NotDict>>),
                List(<<OwnedByP, AllyRel>>), List(<<AllyRel, OwnedByP, NotDict>>),
                Str(<<"P">>), Num} }

\* what json.loads or json.load yields when the text is no object
ValidateValues ==
    { NoneRec, Value(Num), Value(Str(<<"text">>)), Value(List(<<>>)),
      Value(Str(<<"name", "type">>)), Value(List(<<Str(<<"relationships">>)>>)),
      Value(Str(<<"name", "type", "subsidiaries", "relationships">>)) }

ValidateInit ==
    /\ BatchIdle
    /\ MergeIdle
    /\ RunIdle
    /\ ExtractIdle
    /\ StoreIdle
    /\ v_data \in ValidateRecords \cup ValidateValues
    /\ v_out = [raised |-> FALSE, is_valid |-> FALSE, errors |-> <<>>]
    /\ v_pc = "start"

\* validate_entity_json(entity_data)
ValidateCall ==
    /\ v_pc = "start"
    /\ v_out' = validate_entity_json(v_data)
    /\ v_pc' = "done"
    /\ UNCHANGED v_data
    /\ UNCHANGED beside_validate

ValidateNext == ValidateCall

ValidateSpec == ValidateInit /\ [][ValidateNext]_vars

-----------------------------------------------------------------------------
(* The extraction of the JSON text from the model's answer *)

\* A text is a sequence of tokens: the fence of three backticks, the word json, the JSON
\* punctuation, the double quote DQ, a number n, words k and w, and the
\* white space " ".
DQ == "quote"

Fence == "fence"

\* the least i with text[i .. i + Len(sep) - 1] = sep, 0 if there is none
FindSeq(text, sep) ==
    LET hits == {i \in 1..(Len(text) - Len(sep) + 1) :
                    SubSeq(text, i, i + Len(sep) - 1) = sep}
    IN  IF hits = {} THEN 0 ELSE CHOOSE i \in hits : \A j \in hits : i <= j

\* text.split(sep)
RECURSIVE Split(_, _)
Split(text, sep) ==
    LET i == FindSeq(text, sep)
    IN  IF i = 0 THEN <<text>>
        ELSE <<SubSeq(text, 1, i - 1)>>
             \o Split(SubSeq(text, i + Len(sep), Len(text)), sep)

\* text.strip()
Strip(text) ==
    LET ink == {i \in 1..Len(text) : text[i] # " "}
    IN  IF ink = {} THEN <<>>
        ELSE SubSeq(text, CHOOSE i \in ink : \A j \in ink : i <= j,
                          CHOOSE i \in ink : \A j \in ink : j <= i)

\* the loop of lines 127-134 from position i on (positions count from 1):
\* the position of the closing delimiter that brings the count to 0, 0 if
\* the text ends first
RECURSIVE MatchEnd(_, _, _, _, _)
MatchEnd(text, i, brace_count, open, close) ==
    IF i > Len(text) THEN 0
    ELSE IF text[i] = open
         THEN MatchEnd(text, i + 1, brace_count + 1, open, close)
         ELSE IF text[i] = close
              THEN IF brace_count - 1 = 0 THEN i
                   ELSE MatchEnd(text, i + 1, brace_count - 1, open, close)
              ELSE MatchEnd(text, i + 1, brace_count, open, close)

\* an extraction whose scan stops at the first closing delimiter, whatever
\* the depth
ExtractJsonTextFirstClose(response_text, open, close) ==
    IF FindSeq(response_text, <<Fence, "json">>) # 0
    THEN Strip(Split(Split(response_text, <<Fence, "json">>)[2], <<Fence>>)[1])
    ELSE IF FindSeq(response_text, <<Fence>>) # 0
    THEN Strip(Split(response_text, <<Fence>>)[2])
    ELSE IF FindSeq(response_text, <<open>>) # 0
    THEN LET start_idx == FindSeq(response_text, <<open>>)
             end_idx == FindSeq(response_text, <<close>>)
         IN  IF end_idx > start_idx
             THEN Strip(SubSeq(response_text, start_idx, end_idx))
             ELSE Strip(response_text)
    ELSE Strip(response_text)

\* lines 115-141 (enrich_entity_data) and 223-249 (infer_relationships): json_text
ExtractJsonText(response_text, open, close) ==
    IF FindSeq(response_text, <<Fence, "json">>) # 0
    THEN Strip(Split(Split(response_text, <<Fence, "json">>)[2], <<Fence>>)[1])
    ELSE IF FindSeq(response_text, <<Fence>>) # 0
    THEN Strip(Split(response_text, <<Fence>>)[2])
    ELSE IF FindSeq(response_text, <<open>>) # 0
    THEN LET start_idx == FindSeq(response_text, <<open>>)
             end_idx == MatchEnd(response_text, start_idx, 0, open, close)
         IN  IF end_idx > start_idx
             THEN Strip(SubSeq(response_text, start_idx, end_idx))
             ELSE Strip(response_text)
    ELSE Strip(response_text)

\* json.loads on tokens.  The parsers take the position to read from and
\* give the position after what they read, 0 when the text is no JSON.
SkipSpace(t, i) ==
    LET rest == {j \in i..Len(t) : t[j] # " "}
    IN  IF rest = {} THEN Len(t) + 1 ELSE CHOOSE j \in rest : \A l \in rest : j <= l

ParseString(t, i) ==
    IF i > Len(t) \/ i = 0 THEN 0
    ELSE IF t[i] # DQ THEN 0
    ELSE LET ends == {j \in (i + 1)..Len(t) : t[j] = DQ}
         IN  IF ends = {} THEN 0
             ELSE (CHOOSE j \in ends : \A l \in ends : j <= l) + 1

RECURSIVE ParseValue(_, _)
RECURSIVE ParseMembers(_, _)
RECURSIVE ParseElements(_, _)
ParseValue(t, i0) ==
    LET i == SkipSpace(t, i0)
    IN  IF i > Len(t) THEN 0
        ELSE CASE t[i] = DQ -> ParseString(t, i)
               [] t[i] = "n" -> i + 1
               [] t[i] = "{" ->
                    LET j == SkipSpace(t, i + 1)
                    IN  IF j <= Len(t) /\ t[j] = "}" THEN j + 1
                        ELSE ParseMembers(t, j)
               [] t[i] = "[" ->
                    LET j == SkipSpace(t, i + 1)
                    IN  IF j <= Len(t) /\ t[j] = "]" THEN j + 1
                        ELSE ParseElements(t, j)
               [] OTHER -> 0

ParseMembers(t, i) ==
    LET k == ParseString(t, i)
        c == IF k = 0 THEN 0 ELSE SkipSpace(t, k)
        v == IF c = 0 \/ c > Len(t) THEN 0
             ELSE IF t[c] # ":" THEN 0 ELSE ParseValue(t, c + 1)
        e == IF v = 0 THEN 0 ELSE SkipSpace(t, v)
    IN  IF e = 0 \/ e > Len(t) THEN 0
        ELSE CASE t[e] = "," -> ParseMembers(t, SkipSpace(t, e + 1))
               [] t[e] = "}" -> e + 1
               [] OTHER -> 0

ParseElements(t, i) ==
    LET v == ParseValue(t, i)
        e == IF v = 0 THEN 0 ELSE SkipSpace(t, v)
    IN  IF e = 0 \/ e > Len(t) THEN 0
        ELSE CASE t[e] = "," -> ParseElements(t, e + 1)
               [] t[e] = "]" -> e + 1
               [] OTHER -> 0

\* the text without the white space between its tokens
Unspace(t) == SelectSeq(t, LAMBDA c : c # " ")

\* json.loads(json_text): [ok, value]; ~ok is JSONDecodeError; the value is
\* given by the tokens of the text
json_loads(json_text) ==
    LET e == ParseValue(json_text, 1)
    IN  IF e # 0 /\ SkipSpace(json_text, e) > Len(json_text)
        THEN [ok |-> TRUE, value |-> Unspace(json_text)]
        ELSE [ok |-> FALSE, value |-> <<>>]

\* what the first token of a parsed text says the value is
Shape(value) ==
    IF value = <<>> THEN "none"
    ELSE CASE value[1] = "{" -> "object"
           [] value[1] = "[" -> "array"
           [] value[1] = DQ -> "string"
           [] OTHER -> "number"

\* `field in value` for a parsed array of strings or a parsed string
HoldsField(value, field) == \E i \in 1..Len(value) : value[i] = field

\* lines 146-164: the required fields are filled into an object; on any
\* other value the test `field not in enriched_data` raises for a number,
\* and the assignment raises for an array or a string that lacks a field;
\* every exception gives the error result
EnrichReturns(parsed) ==
    IF ~parsed.ok THEN "error"
    ELSE CASE Shape(parsed.value) = "object" -> "value"
           [] Shape(parsed.value) = "number" -> "error"
           [] OTHER -> IF \A i \in 1..Len(RequiredFields) :
                              HoldsField(parsed.value, RequiredFields[i])
                       THEN "value" ELSE "error"

\* lines 252-267: whatever was parsed is returned; on an exception the
\* entities given to the call are returned
InferReturns(parsed) == IF parsed.ok THEN "value" ELSE "entities"

\* lines 114-164 and 223-267: [json_text, ok, value, returned]
ExtractAndParse(response_text, kind) ==
    LET json_text == IF kind = "enrich"
                     THEN ExtractJsonText(response_text, "{", "}")
                     ELSE ExtractJsonText(response_text, "[", "]")
        parsed == json_loads(json_text)
    IN  [json_text |-> json_text, ok |-> parsed.ok, value |-> parsed.value,
         returned |-> IF kind = "enrich" THEN EnrichReturns(parsed)
                      ELSE InferReturns(parsed)]

beside_extract ==
    <<batch_vars, merge_vars, run_vars, validate_vars, store_vars>>

\* well-formed JSON texts
JsonTexts ==
    { <<"{", "}">>,
      <<"[", "]">>,
      <<"{", DQ, "k", DQ, ":", "n", "}">>,
      <<"[", "{", DQ, "k", DQ, ":", "n", "}", "]">>,
      <<"{", DQ, "k", DQ, ":", " ", "[", "n", ",", "n", "]", "}">>,
      <<"{", DQ, "k", DQ, ":", DQ, Fence, DQ, "}">>,
      <<"{", DQ, "k", DQ, ":", DQ, "}", DQ, "}">>,
      <<"[", DQ, "]", DQ, ",", "n", "]">>,
      <<"{", DQ, "k", DQ, ":", "{", DQ, "k", DQ, ":", "n", "}", "}">>,
      <<"n">>,
      <<DQ, "k", DQ>>,
      <<"[", DQ, "name", DQ, ",", DQ, "type", DQ, ",", DQ, "subsidiaries", DQ,
        ",", DQ, "relationships", DQ, "]">> }

ProseTokens == {"w", " ", "{", "}", "[", "]", Fence, "json"}

\* what surrounds the JSON text in the answer
Prose ==
    UNION {[1..n -> ProseTokens] : n \in 0..MaxProseLen}
    \cup {<<"w", " ", "{", "}">>, <<"w", " ", "[", "]">>}

Wraps == {"json_fence", "fence", "bare"}

\* the answer made of prose, the JSON text in its wrapping, prose
Compose(src) ==
    src.pre
    \o (CASE src.wrap = "json_fence" -> <<Fence, "json", " ">> \o src.json \o <<" ", Fence>>
          [] src.wrap = "fence" -> <<Fence, " ">> \o src.json \o <<" ", Fence>>
          [] OTHER -> src.json)
    \o src.post

ExtractInit ==
    /\ BatchIdle
    /\ MergeIdle
    /\ RunIdle
    /\ ValidateIdle
    /\ StoreIdle
    /\ x_src \in [pre : Prose, json : JsonTexts, post : Prose, wrap : Wraps]
    /\ x_text = Compose(x_src)
    /\ x_kind \in {"enrich", "infer"}
    /\ x_out = <<>>
    /\ x_pc = "start"

\* lines 112-144
ExtractCall ==
    /\ x_pc = "start"
    /\ x_out' = ExtractAndParse(x_text, x_kind)
    /\ x_pc' = "done"
    /\ UNCHANGED <<x_text, x_kind, x_src>>
    /\ UNCHANGED beside_extract

ExtractNext == ExtractCall

ExtractSpec == ExtractInit /\ [][ExtractNext]_vars

-----------------------------------------------------------------------------
(* process_entity, add_entity and infer_entity_relationships, called one
   beside the other on the same data/entities *)

beside_store ==
    <<batch_vars, merge_vars, run_vars, validate_vars, extract_vars>>

Callers == 1..MaxCallers

\* the files of data/entities: those of the entity names and that of "D"
StoreKeys == StorageKeys \cup {EntityFilename(<<"D">>)}

\* the entity names the tools are called with, one for each key
CallNames == {<<"A", " ", "b">>, <<"C">>}

\* data/entities is empty, or earlier runs persisted the record of one entity
StoreInit ==
    /\ BatchIdle
    /\ MergeIdle
    /\ RunIdle
    /\ ValidateIdle
    /\ ExtractIdle
    /\ \E k0 \in StorageKeys : \E rec \in InitialRecords(k0) :
          s_store = [k \in StoreKeys |-> IF k = k0 THEN rec ELSE NoneRec]
    /\ s_initial = s_store
    /\ s_calls = [c \in Callers |-> NoCall]

\* the caller has made no call yet; every caller makes one call, and the
\* callers start in the order of their numbers
Free(c) ==
    /\ s_calls[c].op = "none"
    /\ \A d \in 1..(c - 1) : s_calls[d].op # "none"

CallKey(c) == EntityFilename(s_calls[c].name)

\* the calls after caller c made a step to call record new; wrote says that
\* the step changed data/entities, which the other callers' calls are told
Step(c, new, wrote) ==
    [d \in Callers |->
        IF d = c THEN new
        ELSE IF wrote /\ s_calls[d].op # "none"
             THEN [s_calls[d] EXCEPT !.disturbed = TRUE]
             ELSE s_calls[d]]

\* where a call is once process_entity has ended: process_entity called on
\* its own is over, add_entity goes on with its result
Ended(call, r) ==
    IF call.op = "add" THEN "returned"
    ELSE IF r.raised THEN "raised" ELSE "done"

\* main.py main, lines 160-164 and 204: process_entity(name, update_existing)
CallProcess(c) ==
    /\ Free(c)
    /\ \E name \in CallNames, upd \in BOOLEAN :
          s_calls' = Step(c, [NoCall EXCEPT !.op = "process", !.pc = "load",
                                            !.name = name, !.update = upd,
                                            !.before = s_store], FALSE)
    /\ UNCHANGED <<s_store, s_initial>>
    /\ UNCHANGED beside_store

\* add_entity.py main, lines 60-70: add_entity(name, force)
CallAdd(c) ==
    /\ Free(c)
    /\ \E name \in CallNames, force \in BOOLEAN :
          s_calls' = Step(c, [NoCall EXCEPT !.op = "add", !.pc = "check",
                                            !.name = name, !.force = force,
                                            !.before = s_store], FALSE)
    /\ UNCHANGED <<s_store, s_initial>>
    /\ UNCHANGED beside_store

\* main.py main, --infer: infer_entity_relationships()
CallInfer(c) ==
    /\ Free(c)
    /\ s_calls' = Step(c, [NoCall EXCEPT !.op = "infer", !.pc = "load_all",
                                         !.before = s_store], FALSE)
    /\ UNCHANGED <<s_store, s_initial>>
    /\ UNCHANGED beside_store

\* add_entity lines 37-47: the file exists and force is not given, or
\* process_entity(entity_name, update_existing=force) is called
AddCheck(c) ==
    LET call == s_calls[c]
        existed == s_store[CallKey(c)] # NoneRec
    IN  /\ call.pc = "check"
        /\ s_calls' = Step(c,
              IF existed /\ ~call.force
              THEN [call EXCEPT !.pc = "done", !.result = "False",
                                !.existed = existed, !.before = s_store]
              ELSE [call EXCEPT !.pc = "load", !.update = call.force,
                                !.existed = existed, !.before = s_store],
              FALSE)
        /\ UNCHANGED <<s_store, s_initial>>
        /\ UNCHANGED beside_store

\* process_entity lines 45-50
ProcLoad(c) ==
    LET call == s_calls[c]
    IN  /\ call.pc = "load"
        /\ s_calls' = Step(c,
              [call EXCEPT !.pc = "pipeline",
                           !.run = [NewTask EXCEPT
                                       !.pc = "scrape",
                                       !.existing_data =
                                           IF call.update THEN s_store[CallKey(c)]
                                           ELSE NoneRec]],
              FALSE)
        /\ UNCHANGED <<s_store, s_initial>>
        /\ UNCHANGED beside_store

\* process_entity lines 52-108
ProcPipeline(c) ==
    LET call == s_calls[c]
    IN  /\ call.pc = "pipeline"
        /\ \E r \in RunStages(call.run, call.name) :
              s_calls' = Step(c,
                  [call EXCEPT !.pc = IF r.pc = "save" THEN "save"
                                      ELSE Ended(call, r),
                               !.run = [r EXCEPT !.scraped_data = NoneRec,
                                                 !.search_results = <<>>,
                                                 !.news_data = <<>>]],
                  FALSE)
        /\ UNCHANGED <<s_store, s_initial>>
        /\ UNCHANGED beside_store

\* process_entity lines 110-115
ProcSave(c) ==
    LET call == s_calls[c]
    IN  /\ call.pc = "save"
        /\ \E ok \in BOOLEAN :
              /\ s_store' = save_entity_json(s_store, call.run.merged_data,
                                             CallKey(c), ok)
              /\ s_calls' = Step(c,
                    [call EXCEPT !.pc = Ended(call, call.run),
                                 !.run = [Returns(call.run, call.run.merged_data)
                                             EXCEPT !.writes = IF ok THEN @ + 1 ELSE @]],
                    ok)
        /\ UNCHANGED s_initial
        /\ UNCHANGED beside_store

\* add_entity lines 49-54; an exception of process_entity leaves add_entity
AddReturn(c) ==
    LET call == s_calls[c]
    IN  /\ call.op = "add"
        /\ call.pc = "returned"
        /\ s_calls' = Step(c,
              IF call.run.raised THEN [call EXCEPT !.pc = "raised"]
              ELSE [call EXCEPT !.pc = "done",
                                !.result = IF Has(call.run.result, "error")
                                           THEN "False" ELSE "True"],
              FALSE)
        /\ UNCHANGED <<s_store, s_initial>>
        /\ UNCHANGED beside_store

\* the orders in which os.listdir may give the files
Orders(S) ==
    {o \in [1..Cardinality(S) -> S] :
        \A i \in 1..Cardinality(S), j \in 1..Cardinality(S) :
            o[i] = o[j] => i = j}

\* infer_entity_relationships lines 132-136, load_all_entities: the records
\* of the files that hold one
InferLoadAll(c) ==
    LET call == s_calls[c]
    IN  /\ call.pc = "load_all"
        /\ \E o \in Orders({k \in StoreKeys : TruthyRec(s_store[k])}) :
              s_calls' = Step(c,
                  IF Len(o) = 0
                  THEN [call EXCEPT !.pc = "done", !.result = "False",
                                    !.before = s_store, !.disturbed = FALSE]
                  ELSE [call EXCEPT !.pc = "infer",
                                    !.entities = [i \in 1..Len(o) |-> s_store[o[i]]],
                                    !.before = s_store, !.disturbed = FALSE],
                  FALSE)
        /\ UNCHANGED <<s_store, s_initial>>
        /\ UNCHANGED beside_store

\* what a returned array may do to a record: the same name and type, a
\* relationship, and no subsidiaries
Rewritten(e) ==
    [f \in {"name", "type", "relationships"} |->
        IF f = "relationships" THEN List(<<OwnedByP>>) ELSE e[f]]

RecordD ==
    [f \in {"name", "type"} |->
        IF f = "name" THEN Str(<<"D">>) ELSE Str(<<"Vendor">>)]

RecordNoName == [f \in {"type"} |-> Str(<<"Vendor">>)]

\* infer_relationships(entities): the entities themselves (so on every
\* failure, claude.py lines 177 and 258-267), or the array the model text
\* parsed to
InferAnswers(es) ==
    { es,
      [i \in 1..Len(es) |-> Rewritten(es[i])],
      <<Rewritten(es[1]), es[1]>>,
      <<RecordNoName, RecordD>>,
      <<NotDict, RecordD>> }

\* infer_entity_relationships line 139
InferCall(c) ==
    LET call == s_calls[c]
    IN  /\ call.pc = "infer"
        /\ \E u \in InferAnswers(call.entities) :
              s_calls' = Step(c, [call EXCEPT !.pc = "save_each",
                                              !.updated = u, !.i = 1], FALSE)
        /\ UNCHANGED <<s_store, s_initial>>
        /\ UNCHANGED beside_store

\* infer_entity_relationships lines 142-154: one turn of the loop, and the
\* return after the last; entity.get raises on what is no dict, and
\* entity_name.lower() on a name that is no str
InferSaveEach(c) ==
    LET call == s_calls[c]
        entity == call.updated[call.i]
        next == IF call.i = Len(call.updated)
                THEN [call EXCEPT !.pc = "done", !.result = "True", !.i = @ + 1]
                ELSE [call EXCEPT !.i = @ + 1]
    IN  /\ call.pc = "save_each"
        /\ IF ~IsDict(entity)
           THEN /\ s_calls' = Step(c, [call EXCEPT !.pc = "raised"], FALSE)
                /\ s_store' = s_store
           ELSE IF ~(Has(entity, "name") /\ Truthy(entity["name"]))
           THEN /\ s_calls' = Step(c, next, FALSE)
                /\ s_store' = s_store
           ELSE IF entity["name"].k # "str"
           THEN /\ s_calls' = Step(c, [call EXCEPT !.pc = "raised"], FALSE)
                /\ s_store' = s_store
           ELSE \E ok \in BOOLEAN :
                   /\ s_store' = save_entity_json(
                                     s_store, entity,
                                     EntityFilename(entity["name"].s), ok)
                   /\ s_calls' = Step(c, next, ok)
        /\ UNCHANGED s_initial
        /\ UNCHANGED beside_store

StoreNext ==
    \E c \in Callers :
        \/ CallProcess(c)
        \/ CallAdd(c)
        \/ CallInfer(c)
        \/ AddCheck(c)
        \/ ProcLoad(c)
        \/ ProcPipeline(c)
        \/ ProcSave(c)
        \/ AddReturn(c)
        \/ InferLoadAll(c)
        \/ InferCall(c)
        \/ InferSaveEach(c)

StoreSpec == StoreInit /\ [][StoreNext]_vars

-----------------------------------------------------------------------------
(* Properties of the single-entity pipeline *)

\* the subsidiary strings of a record (none when it has no list of them)
SubsidiariesOf(d) ==
    IF d # NoneRec /\ Has(d, "subsidiaries") /\ d["subsidiaries"].k = "list"
    THEN SeqToSet(d["subsidiaries"].items)
    ELSE {}

\* thread t takes the step that persists the record of its run
Persists(t) ==
    LET i == running[t] IN
    /\ i # 0
    /\ task[i].pc = "save"
    /\ task'[i].pc = "returned"
    /\ task'[i].writes = task[i].writes + 1

\* the run of task i has returned a result without an error field
ReportedSuccessful(i) ==
    /\ task[i].pc = "returned"
    /\ ~task[i].raised
    /\ ~Has(task[i].result, "error")

\* the run of task i has returned a result carrying an error field
Aborted(i) ==
    /\ task[i].pc = "returned"
    /\ ~task[i].raised
    /\ Has(task[i].result, "error")

\* C1: in a sequence of runs with update_existing=True, each run that
\* succeeds (its record is persisted) leaves under the name's key a record
\* whose subsidiaries contain every subsidiary persisted before the run and
\* every subsidiary its enrichment returned: union, not replacement.
C1_SubsidiariesUnion ==
    [][\A t \in Threads :
          (Persists(t) /\ update_existing) =>
              LET i == running[t] IN
              /\ task[i].existing_data = store[Key(i)]
              /\ SubsidiariesOf(store[Key(i)])
                    \cup SubsidiariesOf(task[i].enriched_data)
                 \subseteq SubsidiariesOf(store'[Key(i)])]_vars

\* C1 witness: the second of two runs for one name returned fewer subsidiaries
\* (Z alone) than were stored (X, Y), and X, Y and Z are persisted after it.
C1_Witness ==
    /\ Len(entities) = 2
    /\ entities[1] = entities[2]
    /\ update_existing
    /\ initial_store[EntityFilename(entities[1])] = NoneRec
    /\ task[1].pc = "tallied"
    /\ ReportedSuccessful(2)
    /\ task[2].writes = 1
    /\ SubsidiariesOf(task[2].existing_data) = {Str(<<"X">>), Str(<<"Y">>)}
    /\ SubsidiariesOf(task[2].enriched_data) = {Str(<<"Z">>)}
    /\ SubsidiariesOf(store[EntityFilename(entities[2])])
          = {Str(<<"X">>), Str(<<"Y">>), Str(<<"Z">>)}

\* C2: a run that ends Aborted (it returns a result carrying an error field)
\* has written nothing to the store, and the step that aborts it leaves the
\* store as it was.
C2_AbortedWritesNothing ==
    [][\A i \in Tasks :
          (task'[i].pc = "returned" /\ ~task'[i].raised
              /\ Has(task'[i].result, "error")) =>
              /\ task'[i].writes = 0
              /\ (task[i].pc # "returned" => store' = store)
              /\ (update_existing /\ max_workers = 1 =>
                     store'[Key(i)] = task'[i].existing_data)]_vars

\* C2 witness: enrichment failed in a run for a name that has a persisted
\* record; the run is Aborted and the record is the one it loaded.
C2_Witness ==
    \E i \in Tasks :
        /\ Aborted(i)
        /\ task[i].enriched_data = task[i].result
        /\ task[i].existing_data # NoneRec
        /\ store[Key(i)] = task[i].existing_data
        /\ task[i].writes = 0

\* C3: a run reported successful (it returns a record without an error field)
\* has made exactly one successful write, of the returned record under the
\* key of its name; a run whose save failed is not reported as successful.
C3_SuccessMeansPersisted ==
    \A i \in Tasks :
        ReportedSuccessful(i) =>
            /\ task[i].writes = 1
            /\ (max_workers = 1 => store[Key(i)] = task[i].result)

\* C4: a run returns a result (a record, or a result carrying an error field)
\* and never raises, whatever the collaborators answer and whatever record an
\* earlier run persisted.
C4_NeverRaises == \A i \in Tasks : ~task[i].raised

-----------------------------------------------------------------------------
(* Properties of the batch orchestrator *)

Finished(i) == task[i].pc \in {"done", "tallied"}

Succeeded(i) == Finished(i) /\ task[i].outcome[1].success

Failed(i) == Finished(i) /\ ~task[i].outcome[1].success

\* what batch_process returns counts every name once, and the failures are
\* the names whose runs failed
FinalTally ==
    /\ \A i \in Tasks : task[i].pc = "tallied"
    /\ success_count + failure_count = Len(entities)
    /\ Len(failures) = failure_count
    /\ success_count = Cardinality({i \in Tasks : Succeeded(i)})
    /\ failure_count = Cardinality({i \in Tasks : Failed(i)})
    /\ \A n \in EntityNames :
          Cardinality({j \in 1..Len(failures) : failures[j][1] = n})
             = Cardinality({i \in Tasks : Failed(i) /\ entities[i] = n})
    /\ \A j \in 1..Len(failures) :
          \E i \in Tasks : Failed(i) /\ failures[j] = <<entities[i], task[i].outcome[1].error>>

\* the wrapper reports a run as failed exactly when it returned an error or raised
WrapperFaithful ==
    \A i \in Tasks :
        (task[i].pc = "returned" /\ task'[i].pc = "done") =>
            /\ task'[i].outcome[1].entity_name = entities[i]
            /\ task'[i].outcome[1].success
                  <=> (~task[i].raised /\ ~Has(task[i].result, "error"))

\* a run that returned an error or raised has written nothing other runs could see
FailedRunsWroteNothing ==
    \A i \in Tasks :
        (task[i].pc = "returned" /\ (task[i].raised \/ Has(task[i].result, "error")))
            => task[i].writes = 0

\* C5: for every non-empty batch and every worker bound, when every
\* collaborator call returns, batch_process eventually returns counts with
\* success_count + failure_count = N and len(failures) = failure_count; each
\* name is counted once, it is a failure exactly when its own run returned an
\* error or raised, and such a run changes nothing for the other runs.
C5_BatchTally ==
    /\ <>(batch_pc = "done")
    /\ [](batch_pc = "done" => FinalTally)
    /\ []FailedRunsWroteNothing
    /\ [][WrapperFaithful]_vars

\* C5 witness: a batch of two names with two workers has returned one success
\* and one failure, the failure being the name that could not be resolved.
C5_Witness ==
    /\ batch_pc = "done"
    /\ Len(entities) = 2
    /\ max_workers = 2
    /\ success_count = 1
    /\ failure_count = 1
    /\ failures = <<<<entities[1], Str(<<"Could not find Wikipedia data">>)>>>>

\* pipeline runs that have started and not yet finished
InFlight == {i \in Tasks : task[i].pc \in {"load", "scrape", "save", "returned"}}

\* C6: at most W pipeline runs are in flight, each on a worker of its own, and
\* a worker starts its next name only when the run it had is complete.
C6_BoundedWorkers ==
    /\ [](Cardinality(InFlight) <= max_workers)
    /\ [](\A i \in InFlight : \E t \in Threads : running[t] = i)
    /\ [][\A t \in Threads :
             (running[t] # 0 /\ running'[t] # running[t]) =>
                 (task'[running[t]].pc = "done" /\ running'[t] = 0)]_vars

\* C6 witness: every worker runs a pipeline and a submitted name waits.
C6_Witness ==
    /\ Cardinality(InFlight) = max_workers
    /\ NextQueued # 0
    /\ NextQueued \notin InFlight

-----------------------------------------------------------------------------
(* Properties of the storage key *)

MaxNameLen == 2

NameAlphabet == {"A", "a", "b", " ", "/", "_"}

NameUniverse == UNION {[1..n -> NameAlphabet] : n \in 1..MaxNameLen}

\* two characters that the key derivation does not tell apart
SameCharForKey(c, d) ==
    \/ c = d
    \/ {c, d} \subseteq {" ", "/", "_"}
    \/ {c, d} \in {{"A", "a"}, {"B", "b"}, {"C", "c"}}

SameNameForKey(n1, n2) ==
    /\ Len(n1) = Len(n2)
    /\ \A i \in 1..Len(n1) : SameCharForKey(n1[i], n2[i])

KeysAgreeWithFolding ==
    \A n1 \in NameUniverse \cup EntityNames, n2 \in NameUniverse \cup EntityNames :
        EntityFilename(n1) = EntityFilename(n2) <=> SameNameForKey(n1, n2)

\* the store is read and written only under the key of the run's own name
OwnRecordOnly ==
    /\ \A k \in StorageKeys :
          store'[k] # store[k] => \E t \in Threads : Persists(t) /\ Key(running[t]) = k
    /\ \A t \in Threads :
          LET i == running[t] IN
          (i # 0 /\ task[i].pc = "load" /\ task'[i].pc = "scrape" /\ update_existing)
              => task'[i].existing_data = store[EntityFilename(entities[i])]

\* C7 as stated: two workers that process different names never work on the
\* same stored record, because different names have different storage keys.
C7_DifferentNamesDifferentKeys ==
    \A t1 \in Threads, t2 \in Threads :
        (running[t1] # 0 /\ running[t2] # 0
            /\ entities[running[t1]] # entities[running[t2]])
        => Key(running[t1]) # Key(running[t2])

\* C7 amended: two names have the same storage key exactly when they are equal
\* up to letter case and up to the choice among space, "/" and "_"; a run reads
\* and writes only the record under the key of its name, so two workers whose
\* names differ by more than that never work on the same stored record.
C7_SameRecordOnlyForSameKey ==
    /\ []KeysAgreeWithFolding
    /\ [](\A t1 \in Threads, t2 \in Threads :
            (running[t1] # 0 /\ running[t2] # 0
                /\ ~SameNameForKey(entities[running[t1]], entities[running[t2]]))
            => Key(running[t1]) # Key(running[t2]))
    /\ [][OwnRecordOnly]_vars

\* C7 witness: two workers with names of different keys have each persisted
\* the record of their run under their own key.
C7_Witness ==
    \E i \in Tasks, j \in Tasks :
        /\ ~SameNameForKey(entities[i], entities[j])
        /\ ReportedSuccessful(i) /\ task[i].writes = 1
        /\ ReportedSuccessful(j) /\ task[j].writes = 1
        /\ store[Key(i)] = task[i].result
        /\ store[Key(j)] = task[j].result
        /\ store[Key(i)] # store[Key(j)]

-----------------------------------------------------------------------------
(* Properties of concurrent runs on the store *)

DistinctKeys == \A i \in Tasks, j \in Tasks : i # j => Key(i) # Key(j)

\* the run of task i has persisted its record
Persisted(i) == ReportedSuccessful(i) /\ task[i].writes = 1

\* the record a run alone would persist over prior
MergedOver(prior, enriched) == merge_entity_data(prior, enriched).rec

SerialEffect ==
    DistinctKeys =>
        /\ \A i \in Tasks :
              (task[i].pc \in {"returned", "done", "tallied"}
                  /\ task'[i].pc \in {"returned", "done", "tallied"})
              => store'[Key(i)] = store[Key(i)]
        /\ \A k \in StorageKeys :
              (\A i \in Tasks : Key(i) # k) => store'[k] = store[k]

C9_LastWriterWins ==
    /\ [](\A t \in Threads :
            (running[t] # 0 /\ task[running[t]].pc = "load") => ENABLED LoadExisting(t))
    /\ [](\A t \in Threads :
            (running[t] # 0 /\ task[running[t]].pc = "save") => ENABLED Save(t))
    /\ [][\A t \in Threads :
             Persists(t) =>
                 LET i == running[t] IN
                 store'[Key(i)] =
                     IF TruthyRec(task[i].existing_data)
                     THEN MergedOver(task[i].existing_data, task[i].enriched_data)
                     ELSE task[i].enriched_data]_vars

\* C9 witness: the same name twice in one batch with two workers; both runs
\* loaded the same record, both persisted and both are reported successful;
\* the store holds the record of the second writer and lacks subsidiaries the
\* first writer had persisted.
C9_Witness ==
    /\ Len(entities) = 2
    /\ entities[1] = entities[2]
    /\ max_workers = 2
    /\ Persisted(1)
    /\ Persisted(2)
    /\ task[1].existing_data = task[2].existing_data
    /\ task[1].existing_data = initial_store[Key(1)]
    /\ \E w \in Tasks, l \in Tasks :
          /\ w # l
          /\ store[Key(1)] = task[w].result
          /\ ~(SubsidiariesOf(task[l].result) \subseteq SubsidiariesOf(store[Key(1)]))

-----------------------------------------------------------------------------
(* Properties of merge_entity_data *)

\* the call merge_entity_data(m_existing, m_new) with m_existing present is over
MergedPresent == m_pc = "once" /\ m_existing # NoneRec

\* d.get(f)
ScalarOf(d, f) == IF Has(d, f) THEN d[f] ELSE Absent

\* the elements of a collection field (none when the field is missing)
ItemsOf(d, f) == IF Has(d, f) /\ d[f].k = "list" THEN d[f].items ELSE <<>>

\* the index of the first occurrence of x in xs
FirstIndex(xs, x) == CHOOSE i \in 1..Len(xs) : xs[i] = x /\ \A j \in 1..(i - 1) : xs[j] # x

\* C11: for each scalar field f of name, type, parent, revenue and all records
\* existing (present) and incoming, merge(existing, incoming)[f] is
\* incoming[f] when incoming has f with a non-empty, non-null value, and
\* existing[f] (absent if existing lacks f) otherwise.
C11_ScalarsOverwriteOnlyWhenGiven ==
    MergedPresent =>
        /\ ~m_once.raised
        /\ \A f \in {"name", "type", "parent", "revenue"} :
              ScalarOf(m_once.rec, f) =
                  IF Has(m_new, f) /\ m_new[f] \notin {Null, Str(<<>>)}
                  THEN m_new[f]
                  ELSE ScalarOf(m_existing, f)

\* C12: for all records existing (present) and incoming, the subsidiaries of
\* merge(existing, incoming) are the existing subsidiaries in their order,
\* followed by the incoming subsidiaries not already present, each once, in
\* incoming order.
C12_SubsidiariesExistingThenNew ==
    MergedPresent =>
        /\ ~m_once.raised
        /\ LET E == ItemsOf(m_existing, "subsidiaries")
               I == ItemsOf(m_new, "subsidiaries")
               R == ItemsOf(m_once.rec, "subsidiaries")
           IN  /\ Len(R) >= Len(E)
               /\ SubSeq(R, 1, Len(E)) = E
               /\ {R[j] : j \in (Len(E) + 1)..Len(R)} = SeqToSet(I) \ SeqToSet(E)
               /\ \A a \in (Len(E) + 1)..Len(R), b \in (Len(E) + 1)..Len(R) :
                     a < b => FirstIndex(I, R[a]) < FirstIndex(I, R[b])

\* the relationships of a list that carry both target and type
Keyed(rels) == {i \in 1..Len(rels) : Has(rels[i], "target") /\ Has(rels[i], "type")}

\* C13: for all records existing (present) and incoming, merge keeps every
\* existing relationship unchanged and in place, and appends an incoming
\* relationship only if no relationship already in the result has its
\* (target, type) pair.
C13_RelationshipsKeyedUnion ==
    MergedPresent =>
        /\ ~m_once.raised
        /\ LET E == ItemsOf(m_existing, "relationships")
               I == ItemsOf(m_new, "relationships")
               R == ItemsOf(m_once.rec, "relationships")
           IN  /\ Len(R) >= Len(E)
               /\ SubSeq(R, 1, Len(E)) = E
               /\ \A j \in (Len(E) + 1)..Len(R) :
                     /\ R[j] \in SeqToSet(I)
                     /\ j \in Keyed(R)
                     /\ \A i \in Keyed(R) : i < j => RelKey(R[i]) # RelKey(R[j])
               /\ \A i \in Keyed(I) : \E j \in Keyed(R) : RelKey(R[j]) = RelKey(I[i])

\* C14: the record merge_entity_data returns has de-duplicated collections
\* for every pair of inputs: no string twice in its subsidiaries and no
\* (target, type) pair twice in its relationships.
C14_MergedIsDeduplicated ==
    (m_pc = "once" /\ ~m_once.raised) =>
        LET S == ItemsOf(m_once.rec, "subsidiaries")
            R == ItemsOf(m_once.rec, "relationships")
        IN  /\ \A i \in 1..Len(S), j \in 1..Len(S) : S[i] = S[j] => i = j
            /\ \A i \in Keyed(R), j \in Keyed(R) :
                  RelKey(R[i]) = RelKey(R[j]) => i = j

-----------------------------------------------------------------------------
(* Properties of the stages of process_entity *)

\* how often a stage occurs in the log
Times(pc) == Cardinality({i \in 1..Len(p_trace) : p_trace[i] = pc})

\* the run ended with the error that names the entity as not found
EndedNotFound(r) ==
    /\ r.pc = "returned"
    /\ ~r.raised
    /\ Has(r.result, "error")
    /\ r.result["error"] = Str(<<"Could not find Wikipedia data">>)
    /\ r.result["entity_name"] = Str(p_name)

\* what each step of the scraping stages does
ScrapingFlow ==
    /\ p_run.pc = "scrape" =>
          /\ p_run'.scraped_data["entity_name"] = Str(p_name)
          /\ p_run'.pc = IF Has(p_run'.scraped_data, "error") THEN "search" ELSE "news"
    /\ p_run.pc = "search" =>
          \/ p_run'.search_results = <<>> /\ EndedNotFound(p_run')
          \/ p_run'.search_results # <<>> /\ p_run'.pc = "rescrape"
    /\ p_run.pc = "rescrape" =>
          /\ p_run'.scraped_data["entity_name"] = Str(p_run.search_results[1])
          /\ IF Has(p_run'.scraped_data, "error")
             THEN EndedNotFound(p_run')
             ELSE p_run'.pc = "news"

\* C15: search is invoked exactly when the first scrape reports an error; no
\* candidates end the run with an error naming the entity; with candidates
\* exactly one rescrape is made, with the title of the first candidate, and
\* the run ends the same way if it fails and goes on to the news otherwise;
\* enrichment is never invoked after scraping failed.
C15_SearchFallback ==
    /\ [][ScrapingFlow]_vars
    /\ [](Times("scrape") <= 1 /\ Times("search") <= 1 /\ Times("rescrape") <= 1)
    /\ [](Times("enrich") = 1 => ~EndedNotFound(p_run))
    /\ [](p_run.pc \in {"news", "enrich"} => ~Has(p_run.scraped_data, "error"))

\* C15 witness: the first scrape failed, the search had candidates, the page
\* of the first candidate was scraped and the run went on to its end.
C15_Witness ==
    /\ p_trace = <<"load", "scrape", "search", "rescrape", "news", "enrich",
                   "merge", "validate", "save">>
    /\ p_run.pc = "returned"
    /\ Len(p_run.search_results) = 2

ValidationAdvisory ==
    /\ p_run.pc = "validate" =>
          /\ p_run'.pc = "save"
          /\ p_run'.merged_data = p_run.merged_data
          /\ p_run'.is_valid = (ValidationErrors(p_run.merged_data) = <<>>)
    /\ p_run.pc = "save" =>
          /\ p_run'.pc = "returned"
          /\ ~p_run'.raised
          /\ p_run'.result = p_run.merged_data
          /\ ~Has(p_run'.result, "error")
          /\ \/ p_store' = [p_store EXCEPT ![RunKey] = p_run.merged_data]
                   /\ p_run'.writes = 1
             \/ p_store' = p_store /\ p_run'.writes = 0

\* C17: validation is advisory: whatever validate_entity_json reports, the run
\* goes on to the save of the merged record and returns the merged record
\* without an error field.
C17_ValidationAdvisory ==
    /\ [][ValidationAdvisory]_vars
    /\ [](Times("validate") = 1 => p_run.pc \in {"save", "returned"})
    /\ []((p_run.pc = "returned" /\ Times("validate") = 1) =>
             (Times("save") = 1 /\ ~Has(p_run.result, "error")))

\* C17 witness: validation reported the merged record as not valid, and the
\* record was persisted and returned all the same.
C17_Witness ==
    /\ p_run.pc = "returned"
    /\ ~p_run.is_valid
    /\ ~p_run.raised
    /\ p_run.writes = 1
    /\ p_store[RunKey] = p_run.result
    /\ ~Has(p_run.result, "error")

-----------------------------------------------------------------------------
(* Properties of validate_entity_json *)

\* C18: validate_entity_json never raises: it returns a pair (ok, errors) for
\* every value it is handed, be it an object, an array, a string, a number
\* or null, and for objects whose relationships hold elements that are no
\* objects.
C18_ValidateNeverRaises ==
    v_pc = "done" => ~v_out.raised

\* a relationship as the schema wants it
GoodRelationship(rel) ==
    /\ IsDict(rel)
    /\ Has(rel, "target")
    /\ Has(rel, "type")
    /\ rel["type"] \in {Str(<<"owned_by">>), Str(<<"owns">>), Str(<<"partner">>),
                        Str(<<"competitor">>), Str(<<"customer">>), Str(<<"vendor">>)}

GoodRecord(d) ==
    /\ Has(d, "name")
    /\ Has(d, "type")
    /\ Has(d, "subsidiaries") => d["subsidiaries"].k = "list"
    /\ Has(d, "relationships") =>
          /\ d["relationships"].k = "list"
          /\ \A i \in 1..Len(d["relationships"].items) :
                GoodRelationship(d["relationships"].items[i])

\* C19: for every record (a mapping) validate_entity_json returns ok=true
\* exactly when errors is empty, which is exactly when name and type are
\* present, subsidiaries and relationships are lists if present, and every
\* relationship is an object with target and a type among the six; each
\* violating relationship has an error that names its index, and no other
\* relationship has one.
C19_ValidExactlyWhenWellFormed ==
    (v_pc = "done" /\ v_data # NoneRec /\ ~IsValue(v_data)) =>
        /\ ~v_out.raised
        /\ v_out.is_valid <=> (v_out.errors = <<>>)
        /\ v_out.is_valid <=> GoodRecord(v_data)
        /\ LET rels == ItemsOf(v_data, "relationships")
           IN  \A i \in 1..Len(rels) :
                   ~GoodRelationship(rels[i])
                       <=> \E j \in 1..Len(v_out.errors) : v_out.errors[j].index = i - 1

\* C19 witness: {name: "Acme", type: "Vendor", relationships: [{target: "X",
\* type: "ally"}]} is reported not valid, with one error, which names index 0
\* and the invalid type.
C19_Witness ==
    /\ v_pc = "done"
    /\ v_data = [f \in {"name", "type", "relationships"} |->
                    CASE f = "name" -> Str(<<"Acme">>)
                      [] f = "type" -> Str(<<"Vendor">>)
                      [] OTHER -> List(<<AllyRel>>)]
    /\ ~v_out.is_valid
    /\ v_out.errors = <<[msg |-> "has invalid type", index |-> 0]>>

-----------------------------------------------------------------------------
(* Properties of the extraction *)

\* C20: for every well-formed JSON value J and every surrounding prose, when
\* the answer holds J in a fenced block tagged json, the extraction returns
\* exactly J: the candidate is the content between the first json-tagged
\* opening fence and the next fence, whatever else the text holds.
C20_JsonFenceReturnsJ ==
    (x_pc = "done" /\ x_src.wrap = "json_fence") =>
        /\ x_out.ok
        /\ x_out.value = json_loads(x_src.json).value

\* the number of opening less the number of closing braces in text[i..j]
Depth(text, i, j) ==
    Cardinality({l \in i..j : text[l] = "{"})
    - Cardinality({l \in i..j : text[l] = "}"})

\* the closing braces that bring the depth counted from position i back to 0
Closers(text, i) ==
    {j \in (i + 1)..Len(text) : text[j] = "}" /\ Depth(text, i, j) = 0}

Least(S) == CHOOSE i \in S : \A j \in S : i <= j

\* the text holds no fence and the extraction is that of an object
BareObjectCall ==
    /\ x_pc = "done"
    /\ x_kind = "enrich"
    /\ FindSeq(x_text, <<Fence>>) = 0

\* the prose before the object holds no brace, and the object no brace in a
\* string literal
PlainObject ==
    /\ x_src.wrap = "bare"
    /\ x_src.json[1] = "{"
    /\ FindSeq(x_src.pre, <<"{">>) = 0
    /\ \A i \in 1..(Len(x_src.json) - 2) :
          ~(x_src.json[i] = DQ /\ x_src.json[i + 1] \in {"{", "}"}
            /\ x_src.json[i + 2] = DQ)

\* C21: for every text without fences, the candidate of the object
\* extraction is the span from the first opening brace to the closing brace
\* that brings the depth, counted over braces only, back to zero, and what
\* follows that span is ignored; when no such closing brace exists (or no
\* brace at all) the candidate is the whole trimmed text; so an embedded
\* object with balanced braces and no brace in a string literal, after prose
\* without braces, is recovered exactly.
C21_FirstBalancedSpan ==
    BareObjectCall =>
        LET first == FindSeq(x_text, <<"{">>)
        IN  /\ (first # 0 /\ Closers(x_text, first) # {}) =>
                  x_out.json_text =
                      SubSeq(x_text, first, Least(Closers(x_text, first)))
            /\ (first = 0 \/ Closers(x_text, first) = {}) =>
                  x_out.json_text = Strip(x_text)
            /\ PlainObject =>
                  /\ x_out.json_text = x_src.json
                  /\ x_out.ok
                  /\ x_out.value = json_loads(x_src.json).value

\* a nested object after prose and before a later span in braces
C21_Witness ==
    /\ BareObjectCall
    /\ PlainObject
    /\ x_src.pre = <<"w">>
    /\ x_src.post = <<"w", " ", "{", "}">>
    /\ Cardinality({i \in 1..Len(x_src.json) : x_src.json[i] = "{"}) = 2
    /\ x_out.json_text = x_src.json

\* C22: what the extraction hands on is a JSON value of the expected shape,
\* an object from enrich_entity_data and an array from infer_relationships;
\* every other outcome is a failure.
C22_ExpectedShapeOrError ==
    (x_pc = "done" /\ x_out.returned = "value") =>
        Shape(x_out.value) = IF x_kind = "enrich" THEN "object" ELSE "array"

-----------------------------------------------------------------------------
(* Properties of process_entity about the record it replaces and validates *)

\* C25: with update_existing=False a process_entity run does not update
\* existing entity data: no step of the run changes a record that is stored
\* under the name's key.
C25_NoUpdateLeavesStored ==
    [][(~p_update /\ TruthyRec(p_store[RunKey])) =>
           p_store'[RunKey] = p_store[RunKey]]_vars

\* the objects the model text may parse to that lack the field
PayloadsLacking(field) == {p \in Payloads(p_name) : ~Has(p, field)}

\* the run validated a record made from a payload lacking the field alone,
\* no record having been loaded
ValidatedLacking(field) ==
    /\ Times("validate") = 1
    /\ p_run.existing_data = NoneRec
    /\ \E p \in PayloadsLacking(field) :
          p_run.enriched_data = FillRequired(p, RequiredFields)

MissingReported(msg) ==
    LET report == validate_entity_json(p_run.merged_data)
    IN  /\ ~p_run.is_valid
        /\ \E i \in 1..Len(report.errors) : report.errors[i].msg = msg

\* C29: in a run with no existing record, when the object parsed from the
\* model text lacks name or type, the validation reports the record invalid
\* with the missing-required-field error of that field.
C29_MissingFieldReported ==
    /\ ValidatedLacking("name") => MissingReported("Missing required field: name")
    /\ ValidatedLacking("type") => MissingReported("Missing required field: type")

-----------------------------------------------------------------------------
(* Properties of the merge with no existing record *)

\* C27: with no existing record merge_entity_data returns the incoming
\* record unchanged, for every incoming record; and a run of process_entity
\* that loaded no record and persisted its result stored exactly the
\* enriched record.
C27_MergeAbsentIsIncoming ==
    /\ (m_pc \in {"once", "twice"} /\ ~TruthyRec(m_existing)) =>
          (~m_once.raised /\ m_once.rec = m_new)
    /\ (p_run.pc = "returned" /\ p_run.writes = 1
        /\ ~TruthyRec(p_run.existing_data)) =>
          (p_store[RunKey] = p_run.enriched_data
           /\ p_run.result = p_run.enriched_data)

\* an incoming record with a null name, a repeated subsidiary and a
\* relationship without type comes back as it is
C27_Witness ==
    /\ m_pc = "once"
    /\ m_existing = NoneRec
    /\ m_new["name"] = Null
    /\ Has(m_new, "subsidiaries")
    /\ m_new["subsidiaries"] = List(<<Str(<<"X">>), Str(<<"X">>)>>)
    /\ Has(m_new, "relationships")
    /\ m_new["relationships"] = List(<<NoTypeRel>>)
    /\ m_once.rec = m_new

-----------------------------------------------------------------------------
(* Properties of data/entities under the tools *)

\* a record of a returned array that is saved: an object with a name
NamedRecord(e) ==
    IsDict(e) /\ Has(e, "name") /\ Truthy(e["name"]) /\ e["name"].k = "str"

NameKey(e) == EntityFilename(e["name"].s)

\* the call of infer_entity_relationships by caller c returned True, and no
\* other call wrote to data/entities since it loaded the entities
InferReturned(c) ==
    /\ s_calls[c].op = "infer"
    /\ s_calls[c].pc = "done"
    /\ s_calls[c].result = "True"
    /\ ~s_calls[c].disturbed

\* C23: after infer_entity_relationships, every record of the returned array
\* that has a name is stored verbatim under the key of its name, and every
\* stored record under another key is as it was.
C23_InferReplacesVerbatim ==
    \A c \in Callers :
        InferReturned(c) =>
            LET u == s_calls[c].updated
                named == {i \in 1..Len(u) : NamedRecord(u[i])}
            IN  /\ \A i \in named : s_store[NameKey(u[i])] = u[i]
                /\ \A k \in StoreKeys :
                      (\A i \in named : NameKey(u[i]) # k) =>
                          s_store[k] = s_calls[c].before[k]

C26_AddEntityOnExisting ==
    \A c \in Callers :
        LET call == s_calls[c]
        IN  (call.op = "add" /\ call.pc = "done" /\ call.existed
             /\ ~call.disturbed) =>
                /\ ~call.force =>
                      /\ call.result = "False"
                      /\ call.run = NewTask
                      /\ s_store = call.before
                /\ (call.force /\ call.result = "True" /\ call.run.writes = 1) =>
                      s_store[CallKey(c)] = call.run.enriched_data

\* C28: every persisted record is stored under the key derived from its own
\* name field.
C28_StoredUnderOwnKey ==
    \A k \in DOMAIN s_store :
        TruthyRec(s_store[k]) =>
            /\ Has(s_store[k], "name")
            /\ s_store[k]["name"].k = "str"
            /\ EntityFilename(s_store[k]["name"].s) = k

====
